---------------------------- MODULE Spec2Model ----------------------------
(***************************************************************************)
(* Model of libVSC's scoped-ownership wrapper (vsc::ScopedResource) and of *)
(* the Vulkan device-initialization pipeline (vsc::DeviceSetupVk) that is  *)
(* built from it, with vsc::WindowVk and vsc::VerilatorBench.              *)
(*                                                                         *)
(* Six specifications share the variables:                                 *)
(*   Spec      a client applying ScopedResource's constructors, moves,     *)
(*             takeOwnership and destructor to two instances x and y of    *)
(*             ScopedResource<Handle, Context*>, each constructed once;    *)
(*   SpecPipe  one run of DeviceSetupVk's constructor (initVk), and of its *)
(*             destructor, against a native runtime whose calls succeed or *)
(*             fail;                                                       *)
(*   SpecSelect a client constructing a PhysicalDeviceEnumeratorVk over    *)
(*             the devices a runtime reports and calling selectPhysDevice; *)
(*   SpecEnum  a client of the singletons ExtEnumeratorVk and              *)
(*             LayerEnumeratorVk calling get() and updateCache();          *)
(*   SpecWindow a client constructing a WindowVk, moving it into           *)
(*             MainLoopVk::windows and destroying both objects;            *)
(*   SpecBench a client of VerilatorBench calling advanceCycle() with      *)
(*             edge handlers, and reset().                                 *)
(*                                                                         *)
(* Handles are numbered in the order the native runtime hands them out, so *)
(* every acquisition yields a handle no wrapper has held before.           *)
(***************************************************************************)
EXTENDS Integers, Sequences, FiniteSets, TLC

VARIABLES
    objs,       \* ScopedResource instances: id -> fields
    calls,      \* every native call made so far, in order
    acquired,   \* acquired[h]: who adopted handle h, with which destroyer and aux
    pc,         \* position in DeviceSetupVk::DeviceSetupVk / initVk
    enableValidationLayers, \* DeviceSetupVk::enableValidationLayers
    physicalDev,            \* DeviceSetupVk::physicalDev
    graphicsQueue,          \* DeviceSetupVk::graphicsQueue
    error,      \* what() of the exception that left the constructor, or "none"
    stages,     \* the pipeline stages completed so far, in order
    sys,        \* what the native runtime reports: layers, extensions, devices
    layerEnumerator,    \* LayerEnumeratorVk::instance (Null, or its layerCache)
    extEnumerator,      \* ExtEnumeratorVk::instance (Null, or its extensionCache)
    deviceDataCache,    \* PhysicalDeviceEnumeratorVk::deviceDataCache
    selectedPhysDev,    \* initVk's local selectedPhysDev
    windowVk,   \* WindowVk objects: id -> life and the plain member instance
    bench       \* a VerilatorBench, its topmodule and what was done to it

vars == <<objs, calls, acquired, pc, enableValidationLayers, physicalDev,
          graphicsQueue, error, stages, sys, layerEnumerator, extEnumerator,
          deviceDataCache, selectedPhysDev, windowVk, bench>>

(***************************************************************************)
(* Bounds                                                                  *)
(***************************************************************************)
\* Handles a client of Spec acquires at most.
MaxHandles == 2
\* operator= is applied only while it leaves at most this many destroyer
\* invocations made (a build that drops the test of resourceValid can add one
\* with every move-assignment).
MaxCalls == 1

(***************************************************************************)
(* Values                                                                  *)
(***************************************************************************)
\* VK_NULL_HANDLE, and the NULL glfwCreateWindow returns on failure.
NullHandle == 0
\* What a handle that was never written holds.
Indeterminate == -1

\* The instances of Spec.
Slots == {"x", "y"}
\* The destroyer and the context that the construction site of instance i passes.
DestroyerAt(i) == "destroy_" \o i
ContextAt(i) == "ctx_" \o i
Contexts == {ContextAt(i) : i \in Slots}
\* struct Nothing {}
Nothing == "Nothing"
IndeterminateAux == "indeterminate"
\* The values a default-initialized AuxType member (a pointer) can hold.
DefaultInitAux == Contexts \cup {IndeterminateAux}

\* An instance before its constructor and after its destructor.
Unborn ==
    [life |-> "unborn", destroyResource |-> "none", resourceValid |-> FALSE,
     managedResource |-> Indeterminate, aux |-> Nothing]
Destroyed == [Unborn EXCEPT !.life = "destroyed"]

Alive(o) == o.life = "alive"

NewHandle == Len(acquired) + 1

\* A native call as `calls` records it.
NativeCall ==
    [kind |-> "destroy", fn |-> "none", handle |-> NullHandle, aux |-> Nothing,
     by |-> "none", valid |-> FALSE, during |-> "none", ok |-> TRUE,
     inst |-> NullHandle, arg |-> <<>>]

(***************************************************************************)
(* The destroyer lambdas of DeviceSetupVk                                  *)
(***************************************************************************)
This == "this"

\* The WindowVk a client constructs, and the element of MainLoopVk::windows
\* that registerWindow() move-constructs from it.
WindowVks == {"w", "e"}
\* The this pointer of WindowVk x, which the constructor binds to its surface.
ThisWindow(x) == "this_" \o x

\* loop->instance, ctx->instance: the instance handle read through the aux.
InstanceThrough(st, aux) ==
    IF aux = This THEN st.objs["instance"].managedResource
    ELSE IF \E x \in WindowVks : aux = ThisWindow(x) /\ st.windowVk[x].life = "alive"
         THEN st.windowVk[CHOOSE x \in WindowVks : aux = ThisWindow(x)].instance
         ELSE Indeterminate

\* The native function a destroyer calls; a destroyer of Spec is opaque.
NativeOf(destroyer) ==
    CASE destroyer = "destroyInstance" -> "vkDestroyInstance"
      [] destroyer = "destroyDebugMessenger" -> "vkDestroyDebugUtilsMessengerEXT"
      [] destroyer = "destroyDevice" -> "vkDestroyDevice"
      [] destroyer = "destroyWindow" -> "glfwDestroyWindow"
      [] destroyer = "destroySurface" -> "vkDestroySurfaceKHR"
      [] destroyer = "destroyWindowSurface" -> "vkDestroySurfaceKHR"
      [] OTHER -> destroyer

\* The destroyers that pass the instance read through their context.
UsesInstance(destroyer) ==
    destroyer \in {"destroyDebugMessenger", "destroySurface", "destroyWindowSurface"}

(***************************************************************************)
(* ScopedResource                                                          *)
(***************************************************************************)
\* destroyResource(managedResource, aux): the native calls it makes.
InvokeDestroyer(st, i, during) ==
    LET o == st.objs[i] IN
    IF o.destroyResource = "destroyDebugMessenger" /\ ~enableValidationLayers
    THEN <<>>
    ELSE <<[NativeCall EXCEPT
              !.fn = NativeOf(o.destroyResource),
              !.handle = o.managedResource,
              !.aux = o.aux,
              !.by = i,
              !.valid = o.resourceValid,
              !.during = during,
              !.inst = IF UsesInstance(o.destroyResource)
                       THEN InstanceThrough(st, o.aux) ELSE NullHandle]>>

\* `during` names the member function that called releaseResource().
releaseResource(st, i, during) ==
    IF st.objs[i].resourceValid
    THEN [st EXCEPT !.calls = st.calls \o InvokeDestroyer(st, i, during),
                    !.objs[i].resourceValid = FALSE]
    ELSE st

\* ScopedResource(destroyResource) and ScopedResource(destroyResource, aux).
constructUninit(st, i, destroyer, aux) ==
    [st EXCEPT !.objs[i] = [life |-> "alive", destroyResource |-> destroyer,
                            resourceValid |-> FALSE,
                            managedResource |-> Indeterminate, aux |-> aux]]

\* A constructor that takes the handle and leaves resourceValid false.
constructInit_NeverValid(st, i, resource, destroyer, aux, valid) ==
    [st EXCEPT !.objs[i] = [life |-> "alive", destroyResource |-> destroyer,
                            resourceValid |-> FALSE,
                            managedResource |-> resource, aux |-> aux]]

\* ScopedResource(resource, destroyResource, [aux,] valid).
constructInit(st, i, resource, destroyer, aux, valid) ==
    [st EXCEPT !.objs[i] = [life |-> "alive", destroyResource |-> destroyer,
                            resourceValid |-> valid,
                            managedResource |-> resource, aux |-> aux]]

\* takeOwnership() storing the new handle before it releases.
takeOwnership_StoresFirst(st, i, resource) ==
    LET s1 == [st EXCEPT !.objs[i].managedResource = resource] IN
    [releaseResource(s1, i, "takeOwnership") EXCEPT !.objs[i].resourceValid = TRUE]

takeOwnership(st, i, resource) ==
    LET s1 == releaseResource(st, i, "takeOwnership") IN
    [s1 EXCEPT !.objs[i].managedResource = resource,
               !.objs[i].resourceValid = TRUE]

\* aux is not in the member initializer list: it is default-initialized.
moveConstruct(st, i, j, auxInit) ==
    LET other == st.objs[j] IN
    [st EXCEPT !.objs = [[st.objs EXCEPT ![i] = [life |-> "alive",
                                                 destroyResource |-> other.destroyResource,
                                                 resourceValid |-> other.resourceValid,
                                                 managedResource |-> other.managedResource,
                                                 aux |-> auxInit]]
                         EXCEPT ![j].resourceValid = FALSE]]

\* operator= has no return statement: control flows off the end of a function
\* that returns a reference, which is undefined.  A build either compiles the
\* body as written, or treats its end as unreachable and with that drops the
\* test of resourceValid in the inlined releaseResource() (guard = FALSE), the
\* assignments that follow releaseResource() (stores = FALSE), or both;
\* g++ 12 does the first at -O0 and the others from -O1 on.
OperatorAssignBuilds == [guard : BOOLEAN, stores : BOOLEAN]

\* releaseResource() inlined into operator= by a build that drops the test.
releaseResourceUntested(st, i, during) ==
    [st EXCEPT !.calls = st.calls \o InvokeDestroyer(st, i, during),
               !.objs[i].resourceValid = FALSE]

\* aux is not assigned.
moveAssign(st, i, j, build) ==
    LET s1 == IF build.guard THEN releaseResource(st, i, "operator=")
              ELSE releaseResourceUntested(st, i, "operator=")
        other == s1.objs[j]
    IN  IF build.stores
        THEN [s1 EXCEPT !.objs = [[s1.objs EXCEPT
                                      ![i].destroyResource = other.destroyResource,
                                      ![i].resourceValid = other.resourceValid,
                                      ![i].managedResource = other.managedResource]
                                  EXCEPT ![j].resourceValid = FALSE]]
        ELSE s1

destruct(st, i) ==
    LET s1 == releaseResource(st, i, "~ScopedResource") IN
    [s1 EXCEPT !.objs[i] = Destroyed]

(***************************************************************************)
(* Spec: a client of ScopedResource<Handle, Context*>                      *)
(***************************************************************************)
Cur == [objs |-> objs, calls |-> calls]

Apply(st) ==
    /\ objs' = st.objs
    /\ calls' = st.calls

\* acquired with the handle instance i adopts in this step.
Adopt(i) ==
    Append(acquired, [by |-> i, fn |-> objs'[i].destroyResource, aux |-> objs'[i].aux])

PipeUnchanged ==
    UNCHANGED <<pc, enableValidationLayers, physicalDev, graphicsQueue, error,
                stages, sys, layerEnumerator, extEnumerator, deviceDataCache,
                selectedPhysDev, windowVk, bench>>

ConstructUninit(i) ==
    /\ objs[i] = Unborn
    /\ \E a \in DefaultInitAux : Apply(constructUninit(Cur, i, DestroyerAt(i), a))
    /\ UNCHANGED acquired
    /\ PipeUnchanged

ConstructUninitAux(i) ==
    /\ objs[i] = Unborn
    /\ Apply(constructUninit(Cur, i, DestroyerAt(i), ContextAt(i)))
    /\ UNCHANGED acquired
    /\ PipeUnchanged

ConstructInit(i, valid) ==
    /\ objs[i] = Unborn
    /\ valid => NewHandle <= MaxHandles
    /\ \E a \in DefaultInitAux :
          Apply(constructInit(Cur, i, IF valid THEN NewHandle ELSE NullHandle,
                              DestroyerAt(i), a, valid))
    /\ acquired' = IF valid THEN Adopt(i) ELSE acquired
    /\ PipeUnchanged

ConstructInitAux(i, valid) ==
    /\ objs[i] = Unborn
    /\ valid => NewHandle <= MaxHandles
    /\ Apply(constructInit(Cur, i, IF valid THEN NewHandle ELSE NullHandle,
                           DestroyerAt(i), ContextAt(i), valid))
    /\ acquired' = IF valid THEN Adopt(i) ELSE acquired
    /\ PipeUnchanged

MoveConstruct(i, j) ==
    /\ objs[i] = Unborn
    /\ Alive(objs[j])
    /\ \E a \in DefaultInitAux : Apply(moveConstruct(Cur, i, j, a))
    /\ UNCHANGED acquired
    /\ PipeUnchanged

MoveAssign(i, j) ==
    /\ Alive(objs[i])
    /\ Alive(objs[j])
    /\ \E build \in OperatorAssignBuilds : Apply(moveAssign(Cur, i, j, build))
    /\ Len(calls') <= MaxCalls
    /\ UNCHANGED acquired
    /\ PipeUnchanged

TakeOwnership(i) ==
    /\ Alive(objs[i])
    /\ NewHandle <= MaxHandles
    /\ Apply(takeOwnership(Cur, i, NewHandle))
    /\ acquired' = Adopt(i)
    /\ PipeUnchanged

Destruct(i) ==
    /\ Alive(objs[i])
    /\ Apply(destruct(Cur, i))
    /\ UNCHANGED acquired
    /\ PipeUnchanged

Null == <<"null">>
None == <<>>
NoSelection ==
    [score |-> 0, dev |-> NullHandle, graphicsQueueFamilyIdx |-> None,
     presentationQueueFamilyIdx |-> None]
NoQueue == [device |-> Indeterminate, family |-> Indeterminate]
\* No WindowVk and no VerilatorBench exists.
NoWindows == <<>>
NoBench == <<>>

Init ==
    /\ objs = [i \in Slots |-> Unborn]
    /\ calls = <<>>
    /\ acquired = <<>>
    /\ pc = "idle"
    /\ enableValidationLayers = FALSE
    /\ physicalDev = NullHandle
    /\ graphicsQueue = NoQueue
    /\ error = "none"
    /\ stages = <<>>
    /\ sys = [layers |-> <<>>, exts |-> <<>>, glfwExts |-> <<>>, devices |-> <<>>]
    /\ layerEnumerator = Null
    /\ extEnumerator = Null
    /\ deviceDataCache = <<>>
    /\ selectedPhysDev = NoSelection
    /\ windowVk = NoWindows
    /\ bench = NoBench

Next ==
    \/ \E i \in Slots : ConstructUninit(i)
    \/ \E i \in Slots : ConstructUninitAux(i)
    \/ \E i \in Slots, v \in BOOLEAN : ConstructInit(i, v)
    \/ \E i \in Slots, v \in BOOLEAN : ConstructInitAux(i, v)
    \/ \E i \in Slots, j \in Slots : MoveConstruct(i, j)
    \/ \E i \in Slots, j \in Slots : MoveAssign(i, j)
    \/ \E i \in Slots : TakeOwnership(i)
    \/ \E i \in Slots : Destruct(i)

Spec == Init /\ [][Next]_vars

(***************************************************************************)
(* SpecPipe: DeviceSetupVk                                                 *)
(***************************************************************************)
\* DeviceSetupVk with debugMessenger declared before instance.
Members_HookDeclaredFirst == <<"debugMessenger", "instance", "device">>

\* The ScopedResource members of DeviceSetupVk, in declaration order.
Members == <<"instance", "debugMessenger", "device">>
\* initVk with enumSurf declared before enumWind.
InitVkLocals_SurfaceFirst == <<"enumSurf", "enumWind">>

\* The ScopedResource locals of initVk, in declaration order.
InitVkLocals == <<"enumWind", "enumSurf">>
PipeIds == {"instance", "debugMessenger", "device", "enumWind", "enumSurf"}

validationLayers == <<"VK_LAYER_KHRONOS_validation">>
\* VK_EXT_DEBUG_UTILS_EXTENSION_NAME
DebugUtilsExt == "VK_EXT_debug_utils"

\* The physical devices a native runtime may report.
Gpu0 ==
    [dev |-> 11, deviceType |-> "discrete", maxImageDimension2D |-> 2,
     queueFamilies |-> <<{"compute"}, {"graphics", "compute"}>>]
Gpu1 ==
    [dev |-> 12, deviceType |-> "integrated", maxImageDimension2D |-> 1,
     queueFamilies |-> <<{"compute"}>>]

\* The native runtimes a run of the pipeline may meet.
Systems ==
    [layers : {<<>>, validationLayers},
     exts : {<<>>, <<"VK_KHR_surface">>, <<"VK_KHR_surface", DebugUtilsExt>>},
     glfwExts : {<<"VK_KHR_surface">>},
     devices : {<<>>, <<Gpu0>>, <<Gpu1, Gpu0>>}]

\* How a two-call enumeration can end.
QueryOutcomes == {"ok", "countFails", "fetchFails"}

\* The state a member function of the pipeline works on; thrown is what() of
\* the exception in flight, ret the value the last bool function returned.
Pipe ==
    [objs |-> objs, calls |-> calls, acquired |-> acquired,
     layerEnumerator |-> layerEnumerator, extEnumerator |-> extEnumerator,
     deviceDataCache |-> deviceDataCache, graphicsQueue |-> graphicsQueue,
     windowVk |-> windowVk, thrown |-> "none", ret |-> FALSE]

Throw(p, what) == [p EXCEPT !.thrown = what]
Call(p, c) == [p EXCEPT !.calls = Append(@, c)]
Thrown(p) == p.thrown # "none"

Query(fn, ok, inst) ==
    [NativeCall EXCEPT !.kind = "query", !.fn = fn, !.ok = ok, !.inst = inst]
Create(fn, ok, h, inst, arg) ==
    [NativeCall EXCEPT !.kind = "create", !.fn = fn, !.ok = ok, !.handle = h,
                       !.inst = inst, !.arg = arg]

\* The handle the next successful native creation call hands out.
NewHandleOf(p) == Len(p.acquired) + 1

\* Note in acquired that instance i holds handle h from now on.
Record(p, i, h) ==
    [p EXCEPT !.acquired = Append(@, [by |-> i, fn |-> p.objs[i].destroyResource,
                                      aux |-> p.objs[i].aux])]

\* std::vector::resize: value-initialized entries are appended, or the tail cut.
Resize(cache, n) == [k \in 1..n |-> IF k <= Len(cache) THEN cache[k] ELSE ""]

RECURSIVE Reverse(_)
Reverse(s) == IF s = <<>> THEN <<>> ELSE Append(Reverse(Tail(s)), Head(s))

\* The destructors of the instances named in order that have been constructed.
RECURSIVE DestructAll(_, _)
DestructAll(p, order) ==
    IF order = <<>> THEN p
    ELSE DestructAll(IF Alive(p.objs[Head(order)]) THEN destruct(p, Head(order)) ELSE p,
                     Tail(order))

\* An unwinding that destroys the members before the locals of initVk.
UnwindOrder_MembersFirst == Reverse(Members) \o Reverse(InitVkLocals)

\* What leaving initVk and the constructor by an exception destroys, in order.
UnwindOrder == Reverse(InitVkLocals) \o Reverse(Members)

(***************************************************************************)
(* LayerEnumeratorVk, ExtEnumeratorVk                                      *)
(***************************************************************************)
\* updateCache() treating a layer count of zero as ExtEnumeratorVk does.
LayerEnumeratorVk_updateCache_RejectsZero(p, outcome, available) ==
    LET fn == "vkEnumerateInstanceLayerProperties" IN
    IF outcome = "countFails"
    THEN Throw(Call(p, Query(fn, FALSE, NullHandle)),
               "Failed to enumerate Vulkan layer count.")
    ELSE LET p1 == Call(p, Query(fn, TRUE, NullHandle)) IN
         IF Len(available) = 0
         THEN Throw(p1, "No vulkan layers are available.")
         ELSE IF outcome = "fetchFails"
              THEN Throw(Call(p1, Query(fn, FALSE, NullHandle)),
                         "Failed to retrieve Vulkan layer props.")
              ELSE [Call(p1, Query(fn, TRUE, NullHandle))
                       EXCEPT !.layerEnumerator = available]

LayerEnumeratorVk_updateCache(p, outcome, available) ==
    LET fn == "vkEnumerateInstanceLayerProperties" IN
    IF outcome = "countFails"
    THEN Throw(Call(p, Query(fn, FALSE, NullHandle)),
               "Failed to enumerate Vulkan layer count.")
    ELSE LET p1 == Call(p, Query(fn, TRUE, NullHandle))
             p2 == [p1 EXCEPT !.layerEnumerator = Resize(@, Len(available))]
         IN  IF outcome = "fetchFails"
             THEN Throw(Call(p2, Query(fn, FALSE, NullHandle)),
                        "Failed to retrieve Vulkan layer props.")
             ELSE [Call(p2, Query(fn, TRUE, NullHandle))
                      EXCEPT !.layerEnumerator = available]

\* The singleton is created on first use; its constructor runs updateCache(),
\* and when that throws the static pointer stays null.
LayerEnumeratorVk_get(p, outcome, available) ==
    IF p.layerEnumerator # Null THEN p
    ELSE LET r == LayerEnumeratorVk_updateCache([p EXCEPT !.layerEnumerator = <<>>],
                                                outcome, available)
         IN  IF Thrown(r) THEN [r EXCEPT !.layerEnumerator = Null] ELSE r

hasLayer(layerCache, extName) == \E k \in DOMAIN layerCache : layerCache[k] = extName

ExtEnumeratorVk_updateCache(p, outcome, available) ==
    LET fn == "vkEnumerateInstanceExtensionProperties" IN
    IF outcome = "countFails"
    THEN Throw(Call(p, Query(fn, FALSE, NullHandle)),
               "Failed to enumerate Vulkan extension count.")
    ELSE LET p1 == Call(p, Query(fn, TRUE, NullHandle)) IN
         IF Len(available) = 0
         THEN Throw(p1, "No vulkan extensions are available.")
         ELSE LET p2 == [p1 EXCEPT !.extEnumerator = Resize(@, Len(available))] IN
              IF outcome = "fetchFails"
              THEN Throw(Call(p2, Query(fn, FALSE, NullHandle)),
                         "Failed to retrieve Vulkan extension props.")
              ELSE [Call(p2, Query(fn, TRUE, NullHandle))
                       EXCEPT !.extEnumerator = available]

\* get() storing the instance before its constructor has completed.
ExtEnumeratorVk_get_StoresFirst(p, outcome, available) ==
    IF p.extEnumerator # Null THEN p
    ELSE ExtEnumeratorVk_updateCache([p EXCEPT !.extEnumerator = <<>>],
                                     outcome, available)

ExtEnumeratorVk_get(p, outcome, available) ==
    IF p.extEnumerator # Null THEN p
    ELSE LET r == ExtEnumeratorVk_updateCache([p EXCEPT !.extEnumerator = <<>>],
                                              outcome, available)
         IN  IF Thrown(r) THEN [r EXCEPT !.extEnumerator = Null] ELSE r

hasExt(extensionCache, extName) ==
    \E k \in DOMAIN extensionCache : extensionCache[k] = extName

(***************************************************************************)
(* PhysicalDeviceEnumeratorVk                                              *)
(***************************************************************************)
hasAllRequiredQueues(devSel) ==
    devSel.graphicsQueueFamilyIdx # None /\ devSel.presentationQueueFamilyIdx # None

\* What updateCache() collects about the device available[k].
PhysicalDeviceDataVk(available, d) ==
    LET k == CHOOSE k \in DOMAIN available : available[k].dev = d
    IN  [queueFamilies |-> available[k].queueFamilies,
         properties |-> [deviceType |-> available[k].deviceType,
                         maxImageDimension2D |-> available[k].maxImageDimension2D]]

\* updateCache() without the test of physDeviceCnt == 0.
PhysicalDeviceEnumeratorVk_updateCache_AcceptsZero(p, instance, outcome, available) ==
    LET fn == "vkEnumeratePhysicalDevices" IN
    IF outcome # "ok"
    THEN Throw(Call(p, Query(fn, FALSE, instance)), "Failed to enumerate Vulkan devices")
    ELSE [Call(Call(p, Query(fn, TRUE, instance)), Query(fn, TRUE, instance)) EXCEPT
             !.deviceDataCache =
                 [d \in {available[k].dev : k \in DOMAIN available} |->
                     PhysicalDeviceDataVk(available, d)]]

\* unordered_map::insert leaves an entry whose key is already there as it is.
PhysicalDeviceEnumeratorVk_updateCache(p, instance, outcome, available) ==
    LET fn == "vkEnumeratePhysicalDevices" IN
    IF outcome = "countFails"
    THEN Throw(Call(p, Query(fn, FALSE, instance)), "Failed to enumerate Vulkan devices")
    ELSE LET p1 == Call(p, Query(fn, TRUE, instance)) IN
         IF Len(available) = 0
         THEN Throw(p1, "No GPUs found with Vulkan support.")
         ELSE IF outcome = "fetchFails"
              THEN Throw(Call(p1, Query(fn, FALSE, instance)),
                         "Failed to retrieve Vulkan device data.")
              ELSE LET physDevices == {available[k].dev : k \in DOMAIN available}
                       old == p1.deviceDataCache
                   IN  [Call(p1, Query(fn, TRUE, instance)) EXCEPT
                           !.deviceDataCache =
                               [d \in DOMAIN old \cup physDevices |->
                                   IF d \in DOMAIN old THEN old[d]
                                   ELSE PhysicalDeviceDataVk(available, d)]]

\* queueNum is never incremented and presentationQueueFamilyIdx never set.
\* The largest value of int, the type of PhysicalDeviceSelectionVk::score.
INT_MAX == 2147483647

\* score += limit, for a score that is not negative and a uint32_t limit up to
\* INT_MAX: the sum is formed in unsigned 32-bit arithmetic and converted back
\* to int, so a sum above INT_MAX comes out as the sum minus 2^32.
AddToScore(score, limit) ==
    IF score > INT_MAX - limit
    THEN (score - INT_MAX) + (limit - INT_MAX) - 2
    ELSE score + limit

\* The device selection rubric: the tier of the device type plus the limit.
rubricScore(devData) ==
    LET tier == CASE devData.properties.deviceType = "discrete" -> 1000
                  [] devData.properties.deviceType = "integrated" -> 100
                  [] OTHER -> 0
    IN  AddToScore(tier, devData.properties.maxImageDimension2D)

scorePhysDevice(dev, devData) ==
    LET queueNum == 0
        graphicsQueueFamilyIdx ==
            IF \E k \in DOMAIN devData.queueFamilies :
                   "graphics" \in devData.queueFamilies[k]
            THEN <<queueNum>> ELSE None
        devSel == [score |-> rubricScore(devData),
                   dev |-> dev,
                   graphicsQueueFamilyIdx |-> graphicsQueueFamilyIdx,
                   presentationQueueFamilyIdx |-> None]
    IN  IF hasAllRequiredQueues(devSel) THEN devSel ELSE [devSel EXCEPT !.score = -1]

\* The entries of selectPhysDevice's deviceScoreBoard.
deviceScoreBoard(cache) == {scorePhysDevice(d, cache[d]) : d \in DOMAIN cache}

\* selectPhysDevice reads deviceScoreBoard.rend()->first and ->second. rend()
\* is not dereferenceable: what is read is the key and the value of an entry
\* of the board, or whatever lies in the header node of the tree (a key that
\* is no score of any entry, such as the number of entries, and a value that
\* is no selection that was scored).
RendOutcomes(cache) ==
    {[first |-> e.score, second |-> e] : e \in deviceScoreBoard(cache)} \cup
    [first : {-1, 0, Cardinality(DOMAIN cache)},
     second : [score : {-1, 0}, dev : {Indeterminate} \cup DOMAIN cache,
               graphicsQueueFamilyIdx : {None, <<0>>},
               presentationQueueFamilyIdx : {None}]]

\* ret is the selection returned, when none is thrown.
selectPhysDevice(p, rend) ==
    IF rend.first < 0
    THEN Throw(p, "No suitable GPU devices found.")
    ELSE [p EXCEPT !.ret = rend.second]

(***************************************************************************)
(* DeviceSetupVk                                                           *)
(***************************************************************************)
\* checkValidationLayerSupport() looking at the layers only.
checkValidationLayerSupport_LayersOnly(p, layerQuery, extQuery) ==
    LET p1 == LayerEnumeratorVk_get(p, layerQuery, sys.layers) IN
    IF Thrown(p1) THEN p1
    ELSE [p1 EXCEPT !.ret = \A k \in DOMAIN validationLayers :
                                hasLayer(p1.layerEnumerator, validationLayers[k])]

checkValidationLayerSupport(p, layerQuery, extQuery) ==
    LET p1 == LayerEnumeratorVk_get(p, layerQuery, sys.layers) IN
    IF Thrown(p1) THEN p1
    ELSE IF ~ \A k \in DOMAIN validationLayers :
                  hasLayer(p1.layerEnumerator, validationLayers[k])
         THEN [p1 EXCEPT !.ret = FALSE]
         ELSE LET p2 == ExtEnumeratorVk_get(p1, extQuery, sys.exts) IN
              IF Thrown(p2) THEN p2
              ELSE [p2 EXCEPT !.ret = hasExt(p2.extEnumerator, DebugUtilsExt)]

\* getRequiredExtensions() adding the debug extension unconditionally.
getRequiredExtensions_AlwaysDebug == sys.glfwExts \o <<DebugUtilsExt>>

getRequiredExtensions ==
    sys.glfwExts \o (IF enableValidationLayers THEN <<DebugUtilsExt>> ELSE <<>>)

createInstance(p, layerQuery, extQuery, ok) ==
    LET p1 == IF enableValidationLayers
              THEN checkValidationLayerSupport(p, layerQuery, extQuery) ELSE p
    IN  IF Thrown(p1) THEN p1
        ELSE IF enableValidationLayers /\ ~p1.ret
             THEN Throw(p1, "Debug enabled but missing required validation layers.")
             ELSE LET h == IF ok THEN NewHandleOf(p1) ELSE Indeterminate
                      createInfo ==
                          [layers |-> IF enableValidationLayers
                                      THEN validationLayers ELSE <<>>,
                           exts |-> getRequiredExtensions]
                      p2 == Call(p1, Create("vkCreateInstance", ok, h, NullHandle,
                                            createInfo))
                  IN  IF ~ok THEN Throw(p2, "Failed to create Vulkan instance.")
                      ELSE Record(takeOwnership(p2, "instance", h), "instance", h)

createDebugMessenger(p, ok) ==
    LET h == IF ok THEN NewHandleOf(p) ELSE Indeterminate
        p1 == Call(p, Create("vkCreateDebugUtilsMessengerEXT", ok, h,
                             p.objs["instance"].managedResource, <<>>))
    IN  IF ~ok THEN Throw(p1, "Failed to create vkDebugUtilsMessenger instance.")
        ELSE Record(takeOwnership(p1, "debugMessenger", h), "debugMessenger", h)

\* makeScoped: the wrapper is valid whatever createResource returned.
makeScoped(p, i, aux, destroyer, resource) ==
    constructInit(p, i, resource, destroyer, aux, TRUE)

\* createLogicalDevice() taking ownership before it looks at the result.
createLogicalDevice_AdoptsUnchecked(p, devSel, ok) ==
    IF devSel.graphicsQueueFamilyIdx = None
    THEN Throw(p, "bad optional access")
    ELSE LET h == IF ok THEN NewHandleOf(p) ELSE Indeterminate
             p1 == takeOwnership(Call(p, Create("vkCreateDevice", ok, h, NullHandle, <<>>)),
                                 "device", h)
         IN  IF ~ok THEN Throw(p1, "Failed to create logical Vulkan device.")
             ELSE [Record(p1, "device", h) EXCEPT
                      !.graphicsQueue =
                          [device |-> h, family |-> devSel.graphicsQueueFamilyIdx[1]]]

createLogicalDevice(p, devSel, ok) ==
    IF devSel.graphicsQueueFamilyIdx = None
    THEN Throw(p, "bad optional access")
    ELSE LET h == IF ok THEN NewHandleOf(p) ELSE Indeterminate
             createInfo ==
                 [physicalDev |-> physicalDev,
                  queueFamilyIndex |-> devSel.graphicsQueueFamilyIdx[1],
                  queueCount |-> 1,
                  layers |-> IF enableValidationLayers THEN validationLayers ELSE <<>>]
             p1 == Call(p, Create("vkCreateDevice", ok, h, NullHandle, createInfo))
         IN  IF ~ok THEN Throw(p1, "Failed to create logical Vulkan device.")
             ELSE [Record(takeOwnership(p1, "device", h), "device", h) EXCEPT
                      !.graphicsQueue =
                          [device |-> h, family |-> devSel.graphicsQueueFamilyIdx[1]]]

\* initVk calling createDebugMessenger() unconditionally.
AfterCreateInstance_AlwaysAttaches(debug) == "createDebugMessenger"

\* The step after createInstance() in initVk.
AfterCreateInstance(debug) ==
    IF debug THEN "createDebugMessenger" ELSE "createEnumWind"

\* The class of the exception whose what() is `what`.
ExceptionType(what) ==
    CASE what \in {"Debug enabled but missing required validation layers.",
                   "Failed to create Vulkan instance.",
                   "Failed to create vkDebugUtilsMessenger instance."}
             -> "std::runtime_error"
      [] what \in {"Failed to create logical Vulkan device.",
                   "Failed to enumerate Vulkan extension count.",
                   "No vulkan extensions are available.",
                   "Failed to retrieve Vulkan extension props.",
                   "Failed to enumerate Vulkan layer count.",
                   "Failed to retrieve Vulkan layer props.",
                   "Failed to enumerate Vulkan devices",
                   "No GPUs found with Vulkan support.",
                   "Failed to retrieve Vulkan device data.",
                   "No suitable GPU devices found."}
             -> "vsc::VkRuntimeError"
      [] what = "bad optional access" -> "std::bad_optional_access"
      [] OTHER -> "none"

\* The effect of a step of the constructor: on an exception control leaves
\* initVk; otherwise the stage (if one was completed) is noted and control
\* goes on.
Commit(p, stage, next) ==
    /\ objs' = p.objs
    /\ calls' = p.calls
    /\ acquired' = p.acquired
    /\ layerEnumerator' = p.layerEnumerator
    /\ extEnumerator' = p.extEnumerator
    /\ deviceDataCache' = p.deviceDataCache
    /\ graphicsQueue' = p.graphicsQueue
    /\ UNCHANGED <<windowVk, bench>>
    /\ IF Thrown(p)
       THEN pc' = "unwind" /\ error' = p.thrown /\ stages' = stages
       ELSE /\ pc' = next
            /\ error' = error
            /\ stages' = IF stage = "" THEN stages ELSE Append(stages, stage)

\* The member initializers of DeviceSetupVk(debug), then initGlfw().
ConstructMembers(debug) ==
    /\ pc = "start"
    /\ LET p1 == constructInit(Pipe, "instance", NullHandle, "destroyInstance",
                               Nothing, FALSE)
           p2 == constructInit(p1, "debugMessenger", NullHandle,
                               "destroyDebugMessenger", This, FALSE)
           p3 == constructInit(p2, "device", NullHandle, "destroyDevice",
                               Nothing, FALSE)
       IN  Commit(p3, "", "createInstance")
    /\ physicalDev' = NullHandle
    /\ enableValidationLayers' = debug
    /\ UNCHANGED <<sys, selectedPhysDev>>

CreateInstance ==
    /\ pc = "createInstance"
    /\ \E layerQuery \in QueryOutcomes, extQuery \in QueryOutcomes, ok \in BOOLEAN :
          Commit(createInstance(Pipe, layerQuery, extQuery, ok), "InstanceCreated",
                 AfterCreateInstance(enableValidationLayers))
    /\ UNCHANGED <<enableValidationLayers, physicalDev, sys, selectedPhysDev>>

CreateDebugMessenger ==
    /\ pc = "createDebugMessenger"
    /\ \E ok \in BOOLEAN :
          Commit(createDebugMessenger(Pipe, ok), "DebugHookAttached", "createEnumWind")
    /\ UNCHANGED <<enableValidationLayers, physicalDev, sys, selectedPhysDev>>

\* glfwCreateWindow returns NULL when it fails.
CreateEnumWind ==
    /\ pc = "createEnumWind"
    /\ \E ok \in BOOLEAN :
          LET h == IF ok THEN NewHandleOf(Pipe) ELSE NullHandle
              p1 == Call(Pipe, Create("glfwCreateWindow", ok, h, NullHandle, <<>>))
              p2 == makeScoped(p1, "enumWind", Nothing, "destroyWindow", h)
          IN  Commit(IF ok THEN Record(p2, "enumWind", h) ELSE p2, "", "createEnumSurf")
    /\ UNCHANGED <<enableValidationLayers, physicalDev, sys, selectedPhysDev>>

\* The result of glfwCreateWindowSurface is not looked at: when it fails, surf
\* is returned as it was declared, without a value.
CreateEnumSurf ==
    /\ pc = "createEnumSurf"
    /\ \E ok \in BOOLEAN, garbage \in {Indeterminate, NullHandle} :
          /\ ok => objs["enumWind"].managedResource # NullHandle
          /\ LET h == IF ok THEN NewHandleOf(Pipe) ELSE garbage
                 p1 == Call(Pipe, Create("glfwCreateWindowSurface", ok, h,
                                         objs["instance"].managedResource,
                                         <<objs["enumWind"].managedResource>>))
                 p2 == makeScoped(p1, "enumSurf", This, "destroySurface", h)
             IN  Commit(IF ok THEN Record(p2, "enumSurf", h) ELSE p2, "",
                        "enumeratePhysDevices")
    /\ UNCHANGED <<enableValidationLayers, physicalDev, sys, selectedPhysDev>>

\* PhysicalDeviceEnumeratorVk physDevEnumerator(instance, enumSurf)
EnumeratePhysDevices ==
    /\ pc = "enumeratePhysDevices"
    /\ \E outcome \in QueryOutcomes :
          Commit(PhysicalDeviceEnumeratorVk_updateCache(
                     Pipe, objs["instance"].managedResource, outcome, sys.devices),
                 "", "selectPhysDevice")
    /\ UNCHANGED <<enableValidationLayers, physicalDev, sys, selectedPhysDev>>

\* selectedPhysDev = physDevEnumerator.selectPhysDevice(); physicalDev = its dev.
SelectPhysDevice ==
    /\ pc = "selectPhysDevice"
    /\ \E rend \in RendOutcomes(deviceDataCache) :
          LET r == selectPhysDevice(Pipe, rend) IN
          /\ Commit(r, "PhysicalDeviceSelected", "createLogicalDevice")
          /\ IF Thrown(r)
             THEN UNCHANGED <<selectedPhysDev, physicalDev>>
             ELSE /\ selectedPhysDev' = r.ret
                  /\ physicalDev' = r.ret.dev
    /\ UNCHANGED <<enableValidationLayers, sys>>

CreateLogicalDevice_FirstFamily ==
    /\ pc = "createLogicalDevice"
    /\ \E ok \in BOOLEAN :
          Commit(createLogicalDevice(
                     Pipe, [selectedPhysDev EXCEPT !.graphicsQueueFamilyIdx = <<0>>], ok),
                 "LogicalDeviceCreated", "initVkReturn")
    /\ UNCHANGED <<enableValidationLayers, physicalDev, sys, selectedPhysDev>>

CreateLogicalDevice ==
    /\ pc = "createLogicalDevice"
    /\ \E ok \in BOOLEAN :
          Commit(createLogicalDevice(Pipe, selectedPhysDev, ok),
                 "LogicalDeviceCreated", "initVkReturn")
    /\ UNCHANGED <<enableValidationLayers, physicalDev, sys, selectedPhysDev>>

\* initVk returns: its locals are destroyed, and the constructor completes.
InitVkReturn ==
    /\ pc = "initVkReturn"
    /\ Commit(DestructAll(Pipe, Reverse(InitVkLocals)), "Ready", "ready")
    /\ UNCHANGED <<enableValidationLayers, physicalDev, sys, selectedPhysDev>>

\* An exception leaves initVk and the constructor: the locals constructed so
\* far are destroyed, then the members, and the caller gets the exception.
Unwind ==
    /\ pc = "unwind"
    /\ Commit(DestructAll(Pipe, UnwindOrder), "", "failed")
    /\ UNCHANGED <<enableValidationLayers, physicalDev, sys, selectedPhysDev>>

\* ~DeviceSetupVk(): the members are destroyed in reverse declaration order.
DestroyPipeline ==
    /\ pc = "ready"
    /\ Commit(DestructAll(Pipe, Reverse(Members)), "", "destroyed")
    /\ UNCHANGED <<enableValidationLayers, physicalDev, sys, selectedPhysDev>>

InitPipe ==
    /\ objs = [i \in PipeIds |-> Unborn]
    /\ calls = <<>>
    /\ acquired = <<>>
    /\ pc = "start"
    /\ enableValidationLayers = FALSE
    /\ physicalDev = NullHandle
    /\ graphicsQueue = NoQueue
    /\ error = "none"
    /\ stages = <<>>
    /\ sys \in Systems
    /\ layerEnumerator = Null
    /\ extEnumerator = Null
    /\ deviceDataCache = <<>>
    /\ selectedPhysDev = NoSelection
    /\ windowVk = NoWindows
    /\ bench = NoBench

NextPipe ==
    \/ \E debug \in BOOLEAN : ConstructMembers(debug)
    \/ CreateInstance
    \/ CreateDebugMessenger
    \/ CreateEnumWind
    \/ CreateEnumSurf
    \/ EnumeratePhysDevices
    \/ SelectPhysDevice
    \/ CreateLogicalDevice
    \/ InitVkReturn
    \/ Unwind
    \/ DestroyPipeline

SpecPipe == InitPipe /\ [][NextPipe]_vars

(***************************************************************************)
(* SpecSelect: a client of PhysicalDeviceEnumeratorVk                      *)
(***************************************************************************)
\* The most devices a native runtime reports.
MaxDevices == 2

DeviceTypes == {"discrete", "integrated", "other"}
MaxImageDimensions == {4096, 8192, INT_MAX}
QueueFamilyLayouts ==
    {<<{"compute"}>>, <<{"graphics", "compute"}>>,
     <<{"compute"}, {"graphics"}, {"graphics", "compute"}>>}

\* The devices the runtime may report in place k; a handle names one device.
DeviceAt(k) ==
    [dev : {10 + k}, deviceType : DeviceTypes,
     maxImageDimension2D : MaxImageDimensions, queueFamilies : QueueFamilyLayouts]

\* What vkEnumeratePhysicalDevices may report, in enumeration order.
DeviceLists ==
    UNION {{s \in [1..n -> UNION {DeviceAt(k) : k \in 1..n}] :
               \A k \in 1..n : s[k] \in DeviceAt(k)} : n \in 0..MaxDevices}

\* The effect of a member function of the catalog on the client's state.
CommitCatalog(p, next, failed) ==
    /\ calls' = p.calls
    /\ deviceDataCache' = p.deviceDataCache
    /\ pc' = IF Thrown(p) THEN failed ELSE next
    /\ error' = p.thrown
    /\ UNCHANGED <<objs, acquired, enableValidationLayers, physicalDev, graphicsQueue,
                   stages, sys, layerEnumerator, extEnumerator, windowVk, bench>>

\* PhysicalDeviceEnumeratorVk catalog(instance, surface)
CatalogConstruct ==
    /\ pc = "catalog"
    /\ \E outcome \in QueryOutcomes, instance \in {1} :
          CommitCatalog(PhysicalDeviceEnumeratorVk_updateCache(Pipe, instance, outcome,
                                                               sys.devices),
                        "catalog.ready", "catalog.failed")
    /\ UNCHANGED selectedPhysDev

\* catalog.selectPhysDevice()
CatalogSelect ==
    /\ pc = "catalog.ready"
    /\ \E rend \in RendOutcomes(deviceDataCache) :
          LET r == selectPhysDevice(Pipe, rend) IN
          /\ CommitCatalog(r, "select.returned", "select.failed")
          /\ selectedPhysDev' = IF Thrown(r) THEN selectedPhysDev ELSE r.ret

InitSelect ==
    /\ objs = [i \in PipeIds |-> Unborn]
    /\ calls = <<>>
    /\ acquired = <<>>
    /\ pc = "catalog"
    /\ enableValidationLayers = FALSE
    /\ physicalDev = NullHandle
    /\ graphicsQueue = NoQueue
    /\ error = "none"
    /\ stages = <<>>
    /\ sys \in [layers : {<<>>}, exts : {<<>>}, glfwExts : {<<>>}, devices : DeviceLists]
    /\ layerEnumerator = Null
    /\ extEnumerator = Null
    /\ deviceDataCache = <<>>
    /\ selectedPhysDev = NoSelection
    /\ windowVk = NoWindows
    /\ bench = NoBench

NextSelect ==
    \/ CatalogConstruct
    \/ CatalogSelect

SpecSelect == InitSelect /\ [][NextSelect]_vars

(***************************************************************************)
(* SpecEnum: a client of ExtEnumeratorVk and LayerEnumeratorVk             *)
(***************************************************************************)
\* The native enumeration calls a client of SpecEnum makes at most.
MaxQueries == 4

\* What vkEnumerateInstanceExtensionProperties may report when it is asked.
ExtLists ==
    {<<>>, <<"VK_KHR_surface">>, <<"VK_KHR_surface", DebugUtilsExt>>,
     <<"vk_ext_debug_utils">>}
\* What vkEnumerateInstanceLayerProperties may report when it is asked.
LayerLists ==
    {<<>>, validationLayers, <<"VK_LAYER_LUNARG_api_dump">> \o validationLayers}

\* The effect of a member function of an enumerator on the client's state; pc
\* names the function that ran last, error what it threw.
CommitEnum(p, op) ==
    /\ Len(p.calls) <= MaxQueries
    /\ calls' = p.calls
    /\ layerEnumerator' = p.layerEnumerator
    /\ extEnumerator' = p.extEnumerator
    /\ pc' = op
    /\ error' = p.thrown
    /\ UNCHANGED <<objs, acquired, enableValidationLayers, physicalDev, graphicsQueue,
                   stages, deviceDataCache, selectedPhysDev, windowVk, bench>>

\* ExtEnumeratorVk::get()
ExtGet ==
    \E outcome \in QueryOutcomes, available \in ExtLists :
        /\ sys' = [sys EXCEPT !.exts = available]
        /\ CommitEnum(ExtEnumeratorVk_get(Pipe, outcome, available), "ext.get")

\* ExtEnumeratorVk::get()->updateCache(), on the singleton that exists.
ExtUpdateCache ==
    /\ extEnumerator # Null
    /\ \E outcome \in QueryOutcomes, available \in ExtLists :
          /\ sys' = [sys EXCEPT !.exts = available]
          /\ CommitEnum(ExtEnumeratorVk_updateCache(Pipe, outcome, available),
                        "ext.updateCache")

\* LayerEnumeratorVk::get()
LayerGet ==
    \E outcome \in QueryOutcomes, available \in LayerLists :
        /\ sys' = [sys EXCEPT !.layers = available]
        /\ CommitEnum(LayerEnumeratorVk_get(Pipe, outcome, available), "layer.get")

\* LayerEnumeratorVk::get()->updateCache(), on the singleton that exists.
LayerUpdateCache ==
    /\ layerEnumerator # Null
    /\ \E outcome \in QueryOutcomes, available \in LayerLists :
          /\ sys' = [sys EXCEPT !.layers = available]
          /\ CommitEnum(LayerEnumeratorVk_updateCache(Pipe, outcome, available),
                        "layer.updateCache")

InitEnum ==
    /\ objs = [i \in PipeIds |-> Unborn]
    /\ calls = <<>>
    /\ acquired = <<>>
    /\ pc = "client"
    /\ enableValidationLayers = FALSE
    /\ physicalDev = NullHandle
    /\ graphicsQueue = NoQueue
    /\ error = "none"
    /\ stages = <<>>
    /\ sys = [layers |-> <<>>, exts |-> <<>>, glfwExts |-> <<>>, devices |-> <<>>]
    /\ layerEnumerator = Null
    /\ extEnumerator = Null
    /\ deviceDataCache = <<>>
    /\ selectedPhysDev = NoSelection
    /\ windowVk = NoWindows
    /\ bench = NoBench

NextEnum ==
    \/ ExtGet
    \/ ExtUpdateCache
    \/ LayerGet
    \/ LayerUpdateCache

SpecEnum == InitEnum /\ [][NextEnum]_vars

(***************************************************************************)
(* SpecWindow: a client constructing a WindowVk, handing it to             *)
(* MainLoopVk::registerWindow(), and letting both objects go               *)
(***************************************************************************)
WindowOf(x) == x \o ".window"
SurfaceOf(x) == x \o ".surface"
\* The ScopedResource members of WindowVk x, in declaration order.
WindowVkMembers(x) == <<WindowOf(x), SurfaceOf(x)>>
WindowIds == {WindowOf(x) : x \in WindowVks} \cup {SurfaceOf(x) : x \in WindowVks}

\* What a client passes to the constructor.
WindowNames == {"main", "aux"}
WindowSizes == {<<640, 480>>, <<800, 600>>}
WindowInstances == {101, 102}

\* What the default-initialized aux of a move-constructed surface can hold.
WindowDefaultInitAux == {ThisWindow("w"), IndeterminateAux}
\* How the read of wind->instance through a pointer to no live WindowVk can
\* end: the process is killed, or the read yields garbage, or what the
\* destroyed object held.
ReadOutcomes == {"crash", "garbage", "stale"}

\* WindowVk::createSurface()
createSurface(p, x, ok) ==
    LET h == IF ok THEN NewHandleOf(p) ELSE Indeterminate
        p1 == Call(p, Create("glfwCreateWindowSurface", ok, h, p.windowVk[x].instance,
                             <<p.objs[WindowOf(x)].managedResource>>))
    IN  IF ~ok THEN Throw(p1, "Failed to create surface for window.")
        ELSE Record(takeOwnership(p1, SurfaceOf(x), h), SurfaceOf(x), h)

\* ~WindowVk(), and what leaving the constructor by an exception does: the
\* members are destroyed in reverse declaration order.
WindowVk_destruct(p, x, life) ==
    [DestructAll(p, Reverse(WindowVkMembers(x))) EXCEPT !.windowVk[x].life = life]

\* WindowVk::WindowVk(name, width, height, instance, device): the result of
\* glfwCreateWindow is adopted as it comes.
WindowVk_construct(p, x, name, size, instance, windowOk, surfaceOk) ==
    LET h == IF windowOk THEN NewHandleOf(p) ELSE NullHandle
        p1 == Call(p, Create("glfwCreateWindow", windowOk, h, NullHandle,
                             <<size[1], size[2], name>>))
        p2 == makeScoped(p1, WindowOf(x), Nothing, "destroyWindow", h)
        p3 == IF windowOk THEN Record(p2, WindowOf(x), h) ELSE p2
        p4 == constructUninit(p3, SurfaceOf(x), "destroyWindowSurface", ThisWindow(x))
        p5 == [p4 EXCEPT !.windowVk[x] = [life |-> "alive", instance |-> instance]]
        p6 == createSurface(p5, x, surfaceOk)
    IN  IF Thrown(p6) THEN WindowVk_destruct(p6, x, "failed") ELSE p6

\* MainLoopVk::registerWindow(): windows.push_back(std::move(window)), with
\* WindowVk(WindowVk&&) = default moving member by member.
registerWindow(p, auxInit) ==
    LET p1 == moveConstruct(p, WindowOf("e"), WindowOf("w"), Nothing)
        p2 == moveConstruct(p1, SurfaceOf("e"), SurfaceOf("w"), auxInit)
    IN  [p2 EXCEPT !.windowVk["e"] =
                       [life |-> "alive", instance |-> p.windowVk["w"].instance]]

\* The surface of x is valid and its aux points to no live WindowVk.
ReadsThroughBadPointer(x) ==
    /\ objs[SurfaceOf(x)].resourceValid
    /\ \A y \in WindowVks :
          objs[SurfaceOf(x)].aux = ThisWindow(y) => windowVk[y].life # "alive"

CommitWindow(p, next) ==
    /\ objs' = p.objs
    /\ calls' = p.calls
    /\ acquired' = p.acquired
    /\ windowVk' = p.windowVk
    /\ pc' = next
    /\ error' = p.thrown
    /\ UNCHANGED <<enableValidationLayers, physicalDev, graphicsQueue, stages, sys,
                   layerEnumerator, extEnumerator, deviceDataCache, selectedPhysDev,
                   bench>>

\* WindowVk w(name, width, height, instance, device)
WindowConstruct ==
    /\ pc = "window.client"
    /\ \E name \in WindowNames, size \in WindowSizes, instance \in WindowInstances,
          windowOk \in BOOLEAN, surfaceOk \in BOOLEAN :
          /\ surfaceOk => windowOk
          /\ LET p == WindowVk_construct(Pipe, "w", name, size, instance,
                                         windowOk, surfaceOk)
             IN  CommitWindow(p, IF Thrown(p) THEN "window.failed"
                                 ELSE "window.constructed")

\* loop.registerWindow(std::move(w))
RegisterWindow ==
    /\ pc = "window.constructed"
    /\ windowVk["w"].life = "alive"
    /\ \E auxInit \in WindowDefaultInitAux :
          CommitWindow(registerWindow(Pipe, auxInit), "window.registered")

\* WindowVk x goes out of scope, or the vector that holds it does.
WindowDestruct(x) ==
    /\ pc \in {"window.constructed", "window.registered"}
    /\ windowVk[x].life = "alive"
    /\ IF ReadsThroughBadPointer(x)
       THEN \E read \in ReadOutcomes :
               IF read = "crash"
               THEN CommitWindow([Pipe EXCEPT !.windowVk[x].life = "crashed",
                                              !.thrown = "SIGSEGV"], "crashed")
               ELSE LET seen == IF read = "stale"
                                THEN [y \in WindowVks |->
                                         [windowVk[y] EXCEPT !.life = "alive"]]
                                ELSE windowVk
                        p == WindowVk_destruct([Pipe EXCEPT !.windowVk = seen], x,
                                               "destroyed")
                    IN  CommitWindow(
                            [p EXCEPT !.windowVk = [windowVk EXCEPT ![x].life = "destroyed"]],
                            pc)
       ELSE CommitWindow(WindowVk_destruct(Pipe, x, "destroyed"), pc)

InitWindow ==
    /\ objs = [i \in WindowIds |-> Unborn]
    /\ calls = <<>>
    /\ acquired = <<>>
    /\ pc = "window.client"
    /\ enableValidationLayers = FALSE
    /\ physicalDev = NullHandle
    /\ graphicsQueue = NoQueue
    /\ error = "none"
    /\ stages = <<>>
    /\ sys = [layers |-> <<>>, exts |-> <<>>, glfwExts |-> <<>>, devices |-> <<>>]
    /\ layerEnumerator = Null
    /\ extEnumerator = Null
    /\ deviceDataCache = <<>>
    /\ selectedPhysDev = NoSelection
    /\ windowVk = [x \in WindowVks |-> [life |-> "unborn", instance |-> NullHandle]]
    /\ bench = NoBench

NextWindow ==
    \/ WindowConstruct
    \/ RegisterWindow
    \/ \E x \in WindowVks : WindowDestruct(x)

SpecWindow == InitWindow /\ [][NextWindow]_vars

(***************************************************************************)
(* SpecBench: a client of VerilatorBench<TopModule>                        *)
(***************************************************************************)
\* advanceCycle() is called only while cycles is below this; cycles is an
\* unsigned long, whose wrap no run of the model comes near.
MaxCycles == 4

\* What a clock edge handler does with the TopModule* it is given: nothing,
\* or it writes one of the toplevel's inputs.
noOpHandler == [field |-> "none", value |-> 0]
Handlers ==
    {noOpHandler} \cup [field : {"rst"}, value : {0, 1}] \cup [field : {"clk"}, value : {1}]

\* topmodule->eval_step(); topmodule->eval_end_step();
Eval(b) ==
    [b EXCEPT !.trace = Append(@, [ev |-> "eval", clk |-> b.clk, rst |-> b.rst,
                                   handler |-> noOpHandler])]

\* handleClkRising(topmodule), handleClkFalling(topmodule)
Handle(b, edge, handler) ==
    LET b1 == [b EXCEPT !.trace = Append(@, [ev |-> edge, clk |-> b.clk, rst |-> b.rst,
                                             handler |-> handler])]
    IN  CASE handler.field = "rst" -> [b1 EXCEPT !.rst = handler.value]
          [] handler.field = "clk" -> [b1 EXCEPT !.clk = handler.value]
          [] OTHER -> b1

\* VerilatorBench::VerilatorBench()
VerilatorBench_construct ==
    [life |-> "alive", cycles |-> 0, clk |-> 0, rst |-> 0, trace |-> <<>>]

\* advanceCycle() running the rising edge handler before the edge is evaluated.
advanceCycle_HandlesBeforeEval(b, handleClkRising, handleClkFalling) ==
    LET b1 == [b EXCEPT !.cycles = @ + 1]
        b2 == Eval([b1 EXCEPT !.clk = 0])
        b3 == Handle([b2 EXCEPT !.clk = 1], "rising", handleClkRising)
        b4 == Eval(b3)
        b5 == Eval([b4 EXCEPT !.clk = 0])
    IN  Handle(b5, "falling", handleClkFalling)

\* VerilatorBench::advanceCycle(handleClkRising, handleClkFalling)
advanceCycle(b, handleClkRising, handleClkFalling) ==
    LET b1 == [b EXCEPT !.cycles = @ + 1]
        b2 == Eval([b1 EXCEPT !.clk = 0])
        b3 == Eval([b2 EXCEPT !.clk = 1])
        b4 == Handle(b3, "rising", handleClkRising)
        b5 == Eval([b4 EXCEPT !.clk = 0])
    IN  Handle(b5, "falling", handleClkFalling)

\* reset() leaving the cycle it ran in the count.
reset_KeepsCount(b) ==
    [advanceCycle([b EXCEPT !.rst = 1], noOpHandler, noOpHandler) EXCEPT !.rst = 0]

\* VerilatorBench::reset()
reset(b) ==
    LET b1 == [b EXCEPT !.rst = 1]
        b2 == advanceCycle(b1, noOpHandler, noOpHandler)
    IN  [b2 EXCEPT !.rst = 0, !.cycles = 0]

\* VerilatorBench::getCycles()
getCycles(b) == b.cycles

\* The effect of a member function on the client's state; pc names the
\* function that ran last, and trace starts empty with every call.
CommitBench(b, op) ==
    /\ bench' = b
    /\ pc' = op
    /\ UNCHANGED <<objs, calls, acquired, enableValidationLayers, physicalDev,
                   graphicsQueue, error, stages, sys, layerEnumerator, extEnumerator,
                   deviceDataCache, selectedPhysDev, windowVk>>

\* VerilatorBench<TopModule> bench;
BenchConstruct ==
    /\ bench = NoBench
    /\ CommitBench(VerilatorBench_construct, "bench.constructed")

\* bench.advanceCycle(handleClkRising, handleClkFalling)
AdvanceCycle ==
    /\ bench # NoBench
    /\ bench.cycles < MaxCycles
    /\ \E handleClkRising \in Handlers, handleClkFalling \in Handlers :
          CommitBench(advanceCycle([bench EXCEPT !.trace = <<>>],
                                   handleClkRising, handleClkFalling),
                      "bench.advanceCycle")

\* bench.reset()
Reset ==
    /\ bench # NoBench
    /\ CommitBench(reset([bench EXCEPT !.trace = <<>>]), "bench.reset")

InitBench ==
    /\ objs = [i \in PipeIds |-> Unborn]
    /\ calls = <<>>
    /\ acquired = <<>>
    /\ pc = "bench.client"
    /\ enableValidationLayers = FALSE
    /\ physicalDev = NullHandle
    /\ graphicsQueue = NoQueue
    /\ error = "none"
    /\ stages = <<>>
    /\ sys = [layers |-> <<>>, exts |-> <<>>, glfwExts |-> <<>>, devices |-> <<>>]
    /\ layerEnumerator = Null
    /\ extEnumerator = Null
    /\ deviceDataCache = <<>>
    /\ selectedPhysDev = NoSelection
    /\ windowVk = NoWindows
    /\ bench = NoBench

NextBench ==
    \/ BenchConstruct
    \/ AdvanceCycle
    \/ Reset

SpecBench == InitBench /\ [][NextBench]_vars

(***************************************************************************)
(* Properties of ScopedResource, checked under Spec                        *)
(***************************************************************************)
\* The call releaseResource() makes when instance i, as it is now, is valid.
ReleaseCallOf(i, during) ==
    [NativeCall EXCEPT !.fn = objs[i].destroyResource,
                       !.handle = objs[i].managedResource,
                       !.aux = objs[i].aux,
                       !.by = i,
                       !.valid = TRUE,
                       !.during = during]

DestroyCallsOn(h) ==
    {k \in DOMAIN calls : calls[k].kind = "destroy" /\ calls[k].handle = h}
HoldersOf(h) ==
    {i \in DOMAIN objs : /\ Alive(objs[i])
                         /\ objs[i].resourceValid
                         /\ objs[i].managedResource = h}

\* C1: whatever the client does with constructors, takeOwnership, moves and
\* destructors, every destroyer invocation is made by an instance whose valid
\* flag is set at that moment, on a handle that was acquired, and no handle is
\* passed to a destroyer twice.
C1_AtMostOnceOnlyWhileValid ==
    \A k \in DOMAIN calls :
        /\ calls[k].kind = "destroy"
        /\ calls[k].valid
        /\ calls[k].handle \in 1..Len(acquired)
        /\ \A m \in DOMAIN calls : m # k => calls[m].handle # calls[k].handle

\* Every acquired handle is either held by exactly one valid instance and not
\* yet destroyed, or held by none and destroyed exactly once.
Conservation ==
    \A h \in 1..Len(acquired) :
        Cardinality(HoldersOf(h)) + Cardinality(DestroyCallsOn(h)) = 1

DestructPost(i) ==
    /\ objs'[i].life = "destroyed"
    /\ ~objs'[i].resourceValid
    /\ IF objs[i].resourceValid
       THEN calls' = Append(calls, ReleaseCallOf(i, "~ScopedResource"))
       ELSE calls' = calls

\* C2: the destructor of a valid instance invokes that instance's destroyer
\* exactly once, on the handle it holds, and clears validity; the destructor
\* of an invalid (e.g. moved-from) instance invokes nothing; and after any
\* chain of moves each acquired handle is held by exactly one valid instance
\* or has been destroyed exactly once, so that once every instance is
\* destroyed every acquired handle has been destroyed exactly once.
C2_DestroyedExactlyOnce ==
    [][/\ \A i \in Slots : Destruct(i) => DestructPost(i)
       /\ Conservation']_vars

TakeOwnershipPost(i) ==
    /\ IF objs[i].resourceValid
       THEN calls' = Append(calls, ReleaseCallOf(i, "takeOwnership"))
       ELSE calls' = calls
    /\ objs'[i].resourceValid
    /\ objs'[i].managedResource = NewHandle

\* C3: takeOwnership(newHandle) on a valid instance invokes the destroyer
\* exactly once, with the handle held before the call (the new handle is not
\* stored yet); on an invalid instance it invokes nothing; either way the
\* instance is valid and holds newHandle afterwards.
C3_TakeOwnershipReleasesFirst ==
    [][\A i \in Slots : TakeOwnership(i) => TakeOwnershipPost(i)]_vars

\* takeOwnership released a handle, and its instance now holds a later one.
C3_Witness ==
    \E k \in DOMAIN calls :
        /\ calls[k].during = "takeOwnership"
        /\ objs[calls[k].by].resourceValid
        /\ objs[calls[k].by].managedResource > calls[k].handle

MoveTransfersAll(i, j) ==
    /\ objs'[i].managedResource = objs[j].managedResource
    /\ objs'[i].destroyResource = objs[j].destroyResource
    /\ objs'[i].aux = objs[j].aux
    /\ objs'[i].resourceValid = objs[j].resourceValid
    /\ ~objs'[j].resourceValid

\* C4: after a move-construction or a move-assignment of instance i from
\* another instance j, i's handle, destroyer, aux and valid are the ones j had
\* before the move, and j is invalid.
C4_MoveTransfersAllFour ==
    [][\A i \in Slots, j \in Slots :
          (i # j /\ (MoveConstruct(i, j) \/ MoveAssign(i, j)))
              => MoveTransfersAll(i, j)]_vars

MoveAssignPost(i) ==
    IF objs[i].resourceValid
    THEN calls' = Append(calls, ReleaseCallOf(i, "operator="))
    ELSE calls' = calls

\* C5: move-assignment onto a valid destination invokes the destination's own
\* destroyer exactly once, with the destination's old handle and aux (nothing
\* of the destination is overwritten yet); onto an invalid destination it
\* invokes no destroyer.
C5_MoveAssignReleasesFirst ==
    [][\A i \in Slots, j \in Slots : MoveAssign(i, j) => MoveAssignPost(i)]_vars

\* C6: every destroyer invocation passes the context the wrapper that acquired
\* the handle was holding when it acquired it.
C6_ContextNeverMismatched ==
    \A k \in DOMAIN calls :
        calls[k].handle \in 1..Len(acquired)
            => calls[k].aux = acquired[calls[k].handle].aux

(***************************************************************************)
(* Properties of DeviceSetupVk, checked under SpecPipe                     *)
(***************************************************************************)
DestroyCalls == {k \in DOMAIN calls : calls[k].kind = "destroy"}
DestroyCallsBy(i) == {k \in DestroyCalls : calls[k].by = i}
OnAcquired(k) == calls[k].handle \in 1..Len(acquired)

\* The wrappers of the pipeline, latest acquisition first.
ReverseAcquisition == <<"device", "enumSurf", "enumWind", "debugMessenger", "instance">>
PlaceOf(i) == CHOOSE n \in DOMAIN ReverseAcquisition : ReverseAcquisition[n] = i

\* C7: when a stage has failed and the exception has left the constructor,
\* every handle acquired so far has been destroyed exactly once, by the
\* wrapper that acquired it and with that wrapper's destroyer; the destroy
\* calls were made in the order logical device, probe surface, probe window,
\* debug hook, instance (later acquisitions first); and a destroy call that
\* names the instance was made before the instance itself was destroyed.
C7_UnwindsInReverseOrder ==
    pc = "failed" =>
        /\ \A h \in 1..Len(acquired) : Cardinality(DestroyCallsOn(h)) = 1
        /\ \A k \in DestroyCalls :
              /\ calls[k].by \in PipeIds
              /\ OnAcquired(k) =>
                    /\ calls[k].by = acquired[calls[k].handle].by
                    /\ calls[k].fn = NativeOf(acquired[calls[k].handle].fn)
              /\ calls[k].inst # NullHandle =>
                    /\ calls[k].inst \in 1..Len(acquired)
                    /\ acquired[calls[k].inst].by = "instance"
                    /\ \A m \in DestroyCallsOn(calls[k].inst) : k < m
        /\ \A k \in DestroyCalls, m \in DestroyCalls :
              k < m =>
                 /\ PlaceOf(calls[k].by) < PlaceOf(calls[m].by)
                 /\ (OnAcquired(k) /\ OnAcquired(m)) => calls[k].handle > calls[m].handle

\* With diagnostics enabled, a run failed after instance, debug hook, probe
\* window and probe surface had been acquired.
C7_Witness ==
    /\ pc = "failed"
    /\ enableValidationLayers
    /\ Len(acquired) = Len(ReverseAcquisition) - 1
    /\ Cardinality(DestroyCalls) = Len(acquired)

DeviceCreationFailed ==
    \E k \in DOMAIN calls : calls[k].fn = "vkCreateDevice" /\ ~calls[k].ok

\* C8: when vkCreateDevice has returned non-success and the exception has
\* left the constructor, no acquired handle is live: each has been destroyed
\* exactly once and no wrapper holds one; the probe surface, the probe window
\* and the instance have each made one destroy call, the debug hook one when
\* diagnostics are enabled and none otherwise, and the logical device none.
C8_DeviceStageAbortLeavesNothing ==
    (pc = "failed" /\ DeviceCreationFailed) =>
        /\ error = "Failed to create logical Vulkan device."
        /\ \A h \in 1..Len(acquired) :
              Cardinality(DestroyCallsOn(h)) = 1 /\ HoldersOf(h) = {}
        /\ \A i \in PipeIds : objs[i].life = "destroyed"
        /\ \A i \in {"enumSurf", "enumWind", "instance"} :
              Cardinality(DestroyCallsBy(i)) = 1
        /\ Cardinality(DestroyCallsBy("debugMessenger")) =
              (IF enableValidationLayers THEN 1 ELSE 0)
        /\ DestroyCallsBy("device") = {}
        /\ \A k \in DOMAIN calls : calls[k].fn # "vkDestroyDevice"

\* Device creation failed with all four earlier handles acquired, and the
\* failure has reached the caller.
C8_Witness ==
    /\ pc = "failed"
    /\ DeviceCreationFailed
    /\ enableValidationLayers
    /\ Len(acquired) = Len(ReverseAcquisition) - 1

\* The stages after Uninitialized, in the order the state machine allows.
StageOrder(debug) ==
    <<"InstanceCreated">> \o (IF debug THEN <<"DebugHookAttached">> ELSE <<>>)
        \o <<"PhysicalDeviceSelected", "LogicalDeviceCreated", "Ready">>

\* The native calls that create what a stage acquires.
StageCreators == {"vkCreateInstance", "vkCreateDebugUtilsMessengerEXT", "vkCreateDevice"}

IsPrefix(s, t) == Len(s) <= Len(t) /\ \A k \in DOMAIN s : s[k] = t[k]

Supported ==
    /\ \A k \in DOMAIN validationLayers : hasLayer(sys.layers, validationLayers[k])
    /\ hasExt(sys.exts, DebugUtilsExt)
VkCreateInstanceCalls == {k \in DOMAIN calls : calls[k].fn = "vkCreateInstance"}
CapabilityQueries ==
    {k \in DOMAIN calls : calls[k].fn \in {"vkEnumerateInstanceLayerProperties",
                                          "vkEnumerateInstanceExtensionProperties"}}
\* The check ran to its end: no enumeration of it failed.
CheckCompleted ==
    /\ pc \notin {"start", "createInstance"}
    /\ \A k \in CapabilityQueries : calls[k].ok
    /\ error # "No vulkan extensions are available."

\* C10: with diagnostics enabled, vkCreateInstance is called only when the
\* runtime has every validation layer and the debug extension; when the check
\* has run and they are not all there, the constructor fails, with the
\* missing-validation-layers error when the check returned false, and no
\* vkCreateInstance call is made, no handle is acquired and no stage is
\* entered.  With diagnostics disabled no capability is queried and
\* vkCreateInstance is given no layer name and no debug extension.
C10_PreflightBeforeInstance ==
    /\ enableValidationLayers =>
          /\ VkCreateInstanceCalls # {} => Supported
          /\ (pc \notin {"start", "createInstance"} /\ ~Supported) =>
                /\ error # "none"
                /\ VkCreateInstanceCalls = {}
                /\ acquired = <<>>
                /\ stages = <<>>
                /\ pc \in {"unwind", "failed"}
          /\ (CheckCompleted /\ ~Supported) =>
                error = "Debug enabled but missing required validation layers."
    /\ ~enableValidationLayers =>
          /\ CapabilityQueries = {}
          /\ \A k \in VkCreateInstanceCalls :
                /\ calls[k].arg.layers = <<>>
                /\ ~hasExt(calls[k].arg.exts, DebugUtilsExt)

\* With diagnostics enabled and the layer present but the debug extension
\* missing, the constructor failed with the missing-validation-layers error.
C10_Witness ==
    /\ enableValidationLayers
    /\ pc = "failed"
    /\ hasLayer(sys.layers, validationLayers[1])
    /\ ~Supported
    /\ error = "Debug enabled but missing required validation layers."

(***************************************************************************)
(* Properties of PhysicalDeviceEnumeratorVk, checked under SpecSelect      *)
(***************************************************************************)
\* A candidate that has a family with the graphics bit.
Qualified(devData) ==
    \E k \in DOMAIN devData.queueFamilies : "graphics" \in devData.queueFamilies[k]
QualifiedDevices == {d \in DOMAIN deviceDataCache : Qualified(deviceDataCache[d])}
ScoreOf(d) == scorePhysDevice(d, deviceDataCache[d]).score
SelectDone == pc \in {"select.returned", "select.failed"}
IsCandidate(d, type, dim) ==
    /\ deviceDataCache[d].properties.deviceType = type
    /\ deviceDataCache[d].properties.maxImageDimension2D = dim
    /\ Qualified(deviceDataCache[d])

\* C11: once selectPhysDevice() has been called on a catalog with a qualified
\* candidate, it has returned an entry of the score board whose score is the
\* maximum of all scores; for the candidates (discrete, 4096, graphics) and
\* (integrated, 8192, graphics) the scores are 5096 and 8292 and the
\* integrated one is returned.
C11_SelectsMaximumScore ==
    (SelectDone /\ QualifiedDevices # {}) =>
        /\ pc = "select.returned"
        /\ selectedPhysDev \in deviceScoreBoard(deviceDataCache)
        /\ \A d \in DOMAIN deviceDataCache : ScoreOf(d) <= selectedPhysDev.score
        /\ \A d, i \in DOMAIN deviceDataCache :
              (/\ DOMAIN deviceDataCache = {d, i}
               /\ IsCandidate(d, "discrete", 4096)
               /\ IsCandidate(i, "integrated", 8192)) =>
                  ScoreOf(d) = 5096 /\ ScoreOf(i) = 8292 /\ selectedPhysDev.dev = i

\* C12: selectPhysDevice() never returns a selection whose score is negative,
\* and on a catalog with a qualified candidate it returns a qualified
\* candidate, wherever the others stand in the enumeration.
C12_NeverReturnsDisqualified ==
    /\ pc = "select.returned" => selectedPhysDev.score >= 0
    /\ (SelectDone /\ QualifiedDevices # {}) =>
           pc = "select.returned" /\ selectedPhysDev.dev \in QualifiedDevices

\* C13: on a catalog in which every candidate has a negative score,
\* selectPhysDevice() throws the no-suitable-device error and returns no
\* selection.
C13_NoSuitableDeviceError ==
    (SelectDone /\ \A d \in DOMAIN deviceDataCache : ScoreOf(d) < 0) =>
        /\ pc = "select.failed"
        /\ error = "No suitable GPU devices found."
        /\ selectedPhysDev = NoSelection

\* The qualified candidates whose score no candidate exceeds.
BestDevices ==
    {d \in QualifiedDevices : \A e \in DOMAIN deviceDataCache : ScoreOf(e) <= ScoreOf(d)}
\* The place of device d in the enumeration.
EnumeratedAt(d) == CHOOSE k \in DOMAIN sys.devices : sys.devices[k].dev = d

\* C14: when two or more candidates share the maximum score,
\* selectPhysDevice() returns the one of them that was enumerated first.
C14_TieGoesToFirstEnumerated ==
    (SelectDone /\ Cardinality(BestDevices) >= 2) =>
        /\ pc = "select.returned"
        /\ selectedPhysDev.dev \in BestDevices
        /\ \A d \in BestDevices : EnumeratedAt(selectedPhysDev.dev) <= EnumeratedAt(d)

\* C15: of two candidates that both have their queue families, one discrete
\* and one integrated, the discrete one gets the strictly greater score,
\* whatever their maxImageDimension2D.
C15_DiscreteOutscoresIntegrated ==
    SelectDone =>
        \A d, i \in QualifiedDevices :
            (/\ deviceDataCache[d].properties.deviceType = "discrete"
             /\ deviceDataCache[i].properties.deviceType = "integrated") =>
                ScoreOf(d) > ScoreOf(i)

\* The native calls the step being taken adds to calls.
NewCalls == SubSeq(calls', Len(calls) + 1, Len(calls'))
ReportedDevices == {sys.devices[k].dev : k \in DOMAIN sys.devices}
DeviceEnumerationErrors ==
    {"Failed to enumerate Vulkan devices", "No GPUs found with Vulkan support.",
     "Failed to retrieve Vulkan device data."}

\* C18: updateCache() of the device catalog throws an enumeration error when
\* the runtime reports no device or one of its two queries fails, and then
\* caches nothing; when it succeeds the cache holds one record for each
\* device the runtime reported, under that device's handle, with the data
\* reported for it, and no other record.
C18_RefreshCachesReportedDevices ==
    [][(pc = "catalog" /\ pc' # "catalog") =>
        /\ (Len(sys.devices) = 0 \/ \E k \in DOMAIN NewCalls : ~NewCalls[k].ok) =>
               /\ pc' = "catalog.failed"
               /\ error' \in DeviceEnumerationErrors
               /\ deviceDataCache' = deviceDataCache
        /\ pc' = "catalog.ready" =>
               /\ error' = "none"
               /\ DOMAIN deviceDataCache' = ReportedDevices
               /\ \A k \in DOMAIN sys.devices :
                      LET rec == deviceDataCache'[sys.devices[k].dev] IN
                      /\ rec.queueFamilies = sys.devices[k].queueFamilies
                      /\ rec.properties.deviceType = sys.devices[k].deviceType
                      /\ rec.properties.maxImageDimension2D =
                             sys.devices[k].maxImageDimension2D]_vars

\* A catalog constructed over two reported devices holds both.
C18_Witness ==
    /\ pc = "catalog.ready"
    /\ Len(sys.devices) = 2
    /\ DOMAIN deviceDataCache = ReportedDevices

(***************************************************************************)
(* Properties of the capability enumerators, checked under SpecEnum        *)
(***************************************************************************)
Range(f) == {f[k] : k \in DOMAIN f}
\* The names a client asks for.
CapabilityNames == UNION {Range(l) : l \in ExtLists \cup LayerLists} \cup {"VK_KHR_SURFACE"}
\* The step being taken ran updateCache() of the extension (layer) enumerator,
\* by itself or in the constructor that get() runs.
ExtRefreshStep == pc' \in {"ext.get", "ext.updateCache"} /\ NewCalls # <<>>
LayerRefreshStep == pc' \in {"layer.get", "layer.updateCache"} /\ NewCalls # <<>>

\* C16: after every updateCache(), hasExt(name) and hasLayer(name) are true
\* exactly for the names, compared character for character, that the most
\* recent successful updateCache() fetched: those of this call when it
\* succeeded, and otherwise those they were true for before the call.
C16_HasReflectsLatestSuccess ==
    [][\A name \in CapabilityNames :
          /\ (ExtRefreshStep /\ extEnumerator' # Null) =>
                 (hasExt(extEnumerator', name) <=>
                     IF error' = "none" THEN name \in Range(sys'.exts)
                     ELSE hasExt(extEnumerator, name))
          /\ (LayerRefreshStep /\ layerEnumerator' # Null) =>
                 (hasLayer(layerEnumerator', name) <=>
                     IF error' = "none" THEN name \in Range(sys'.layers)
                     ELSE hasLayer(layerEnumerator, name))]_vars

\* C17: updateCache() throws an enumeration error when its count query fails,
\* for extensions and for layers, and makes no further query; for extensions
\* it also throws when the count is zero; for layers a count of zero leads to
\* the fetch, and when that succeeds nothing is thrown and the cache is empty.
C17_CountQueryAndZeroCount ==
    [][/\ ExtRefreshStep =>
            /\ ~NewCalls[1].ok =>
                   /\ Len(NewCalls) = 1
                   /\ error' = "Failed to enumerate Vulkan extension count."
            /\ (NewCalls[1].ok /\ Len(sys'.exts) = 0) =>
                   /\ Len(NewCalls) = 1
                   /\ error' = "No vulkan extensions are available."
       /\ LayerRefreshStep =>
            /\ ~NewCalls[1].ok =>
                   /\ Len(NewCalls) = 1
                   /\ error' = "Failed to enumerate Vulkan layer count."
            /\ (NewCalls[1].ok /\ Len(sys'.layers) = 0) =>
                   /\ Len(NewCalls) = 2
                   /\ NewCalls[2].ok => error' = "none" /\ layerEnumerator' = <<>>]_vars

\* The layer enumerator was refreshed with a count of zero and holds an empty
\* cache, after the extension enumerator refused a count of zero.
C17_Witness ==
    /\ pc \in {"layer.get", "layer.updateCache"}
    /\ error = "none"
    /\ sys.layers = <<>>
    /\ layerEnumerator = <<>>
    /\ sys.exts = <<>>
    /\ extEnumerator = Null
    /\ Len(calls) = 3

(***************************************************************************)
(* Properties of DeviceSetupVk's error handling, checked under SpecPipe    *)
(***************************************************************************)
CreateCalls == {k \in DOMAIN calls : calls[k].kind = "create"}
\* Handle h was written by a native creation call that returned success.
Created(h, before) ==
    \E k \in CreateCalls : k < before /\ calls[k].ok /\ calls[k].handle = h

\* C19: a native creation call that does not succeed aborts the pipeline (no
\* native call other than destroyers follows it), a valid ScopedResource
\* holds only a handle that a successful creation call wrote, and destroyers
\* are invoked only on such handles.
C19_FailedCreationIsFatal ==
    /\ \A k \in CreateCalls :
          ~calls[k].ok =>
              /\ pc \in {"unwind", "failed"}
              /\ \A j \in DOMAIN calls : j > k => calls[j].kind = "destroy"
    /\ \A i \in PipeIds :
          (Alive(objs[i]) /\ objs[i].resourceValid) =>
              Created(objs[i].managedResource, Len(calls) + 1)
    /\ \A k \in DOMAIN calls :
          calls[k].kind = "destroy" => Created(calls[k].handle, k)

\* The native calls by which the pipeline acquires something.
AcquisitionCalls ==
    StageCreators \cup {"glfwCreateWindow", "glfwCreateWindowSurface"}
Attempts(log, fn) == {k \in DOMAIN log : log[k].kind = "create" /\ log[k].fn = fn}

\* C20: in one run of the constructor every native acquisition call is made
\* at most once; a step in which such a call fails throws, completes no stage
\* and its exception has a class; once an exception is in flight no stage is
\* attempted (only destroyers are called), Ready is never reached, and the
\* constructor ends by handing that exception to its caller.
C20_NoRetryFailureIsTerminal ==
    [][/\ \A fn \in AcquisitionCalls : Cardinality(Attempts(calls', fn)) <= 1
       /\ (\E k \in DOMAIN NewCalls : NewCalls[k].kind # "destroy" /\ ~NewCalls[k].ok) =>
              error' # "none"
       /\ (error = "none" /\ error' # "none") =>
              /\ pc' = "unwind"
              /\ stages' = stages
              /\ ExceptionType(error') # "none"
       /\ error # "none" =>
              /\ error' = error
              /\ stages' = stages
              /\ pc' = "failed"
              /\ "Ready" \notin Range(stages')
              /\ \A k \in DOMAIN NewCalls : NewCalls[k].kind = "destroy"]_vars

(***************************************************************************)
(* Further properties of ScopedResource, checked under Spec                *)
(***************************************************************************)
\* The native calls the step being taken makes on behalf of instance i.
NewCallsBy(i) == {k \in DOMAIN NewCalls : NewCalls[k].by = i}
\* An instance other than i from which a move-assignment could take a live
\* handle.
ValidSourceFor(i) == \E j \in Slots \ {i} : objs[j].resourceValid

\* C21: an instance constructed without a handle is invalid, and as long as
\* it stays invalid (no takeOwnership, no move-assignment while another
\* instance is valid) no step invokes the destroyer on its behalf: not its
\* destructor, and not the release in a move-assignment from an invalid
\* source.
C21_UninitializedNeverDestroys ==
    [][\A i \in Slots :
          /\ (/\ objs[i] = Unborn
              /\ Alive(objs'[i])
              /\ objs'[i].managedResource = Indeterminate) => ~objs'[i].resourceValid
          /\ (/\ Alive(objs[i])
              /\ ~objs[i].resourceValid
              /\ ~objs'[i].resourceValid
              /\ ~ValidSourceFor(i)) => NewCallsBy(i) = {}]_vars

SelectionOf(d) == scorePhysDevice(d, deviceDataCache[d])
\* The places, counted from 0 as the code counts them, of the families of
\* devData that have the graphics bit.
GraphicsFamilies(devData) ==
    {k - 1 : k \in {n \in DOMAIN devData.queueFamilies :
                       "graphics" \in devData.queueFamilies[n]}}
Max(S) == CHOOSE m \in S : \A n \in S : n <= m

\* C23: the graphics-queue-family index scorePhysDevice records for a device
\* is the place of the last family that has the graphics bit, and it is
\* absent when no family has the bit.
C23_LastGraphicsFamilyRecorded ==
    SelectDone =>
        \A d \in DOMAIN deviceDataCache :
            SelectionOf(d).graphicsQueueFamilyIdx =
                IF GraphicsFamilies(deviceDataCache[d]) = {} THEN None
                ELSE <<Max(GraphicsFamilies(deviceDataCache[d]))>>

\* In the runtimes of SpecSelect the families that can present to the probe
\* surface are the families with the graphics bit, so a device with a
\* graphics family (Qualified) has every queue family the selection requires.
Tier(deviceType) ==
    CASE deviceType = "discrete" -> 1000
      [] deviceType = "integrated" -> 100
      [] OTHER -> 0

\* C24: for a device that has a graphics family, which can also present to
\* the surface, scorePhysDevice resolves the presentation index as well as
\* the graphics index, and the score is not -1.
C24_PresentationResolved ==
    SelectDone =>
        \A d \in QualifiedDevices :
            /\ SelectionOf(d).graphicsQueueFamilyIdx # None
            /\ SelectionOf(d).presentationQueueFamilyIdx # None
            /\ SelectionOf(d).score # -1

\* C25: for a device that has its required queue families the score is
\* exactly tier + maxImageDimension2D, with tier 1000 for a discrete GPU, 100
\* for an integrated GPU and 0 for any other class.
C25_ScoreIsTierPlusDimension ==
    SelectDone =>
        \A d \in QualifiedDevices :
            SelectionOf(d).score - Tier(deviceDataCache[d].properties.deviceType) =
                deviceDataCache[d].properties.maxImageDimension2D

\* C26: a device without a graphics family gets score -1 whatever its class
\* and its maxImageDimension2D, and what selectPhysDevice() returns is the
\* selection of a cached device that has a graphics family.
C26_DisqualifiedNeverSelected ==
    /\ SelectDone =>
           \A d \in DOMAIN deviceDataCache \ QualifiedDevices : SelectionOf(d).score = -1
    /\ pc = "select.returned" =>
           /\ selectedPhysDev.graphicsQueueFamilyIdx # None
           /\ selectedPhysDev.dev \in QualifiedDevices

(***************************************************************************)
(* Further properties of DeviceSetupVk, checked under SpecPipe             *)
(***************************************************************************)
\* The destroyer invocations made for instance i, as places in calls.
DestroysBy(i) == {k \in DOMAIN calls : calls[k].kind = "destroy" /\ calls[k].by = i}
QueriesOf(fn) == {k \in DOMAIN calls : calls[k].kind = "query" /\ calls[k].fn = fn}

\* C27 as claimed: when vkCreateDevice is called, the probe surface has been
\* destroyed, after the enumeration of the physical devices.
C27_ProbeDestroyedBeforeDevice ==
    \A j \in Attempts(calls, "vkCreateDevice") :
        \E k \in DestroysBy("enumSurf") :
            /\ k < j
            /\ \A q \in QueriesOf("vkEnumeratePhysicalDevices") : q < k

\* C27 as amended: the probe surface and the probe window live until initVk
\* returns. Neither is destroyed before vkCreateDevice has been called, and
\* a constructor that has completed has destroyed each once, the surface
\* before the window, after vkCreateDevice returned success.
C27_ProbeDestroyedWhenInitVkReturns ==
    /\ \A j \in Attempts(calls, "vkCreateDevice") :
          \A k \in DestroysBy("enumSurf") \cup DestroysBy("enumWind") : j < k
    /\ "Ready" \in Range(stages) =>
          \E j \in Attempts(calls, "vkCreateDevice"), ks \in DestroysBy("enumSurf"),
             kw \in DestroysBy("enumWind") :
              /\ calls[j].ok
              /\ j < ks
              /\ ks < kw
              /\ calls[ks].fn = "vkDestroySurfaceKHR"
              /\ calls[kw].fn = "glfwDestroyWindow"
              /\ DestroysBy("enumSurf") = {ks}
              /\ DestroysBy("enumWind") = {kw}

\* The constructor completed after the probe window and the probe surface
\* were created successfully.
C27_Witness ==
    /\ pc = "ready"
    /\ \E k \in Attempts(calls, "glfwCreateWindowSurface") : calls[k].ok
    /\ DestroysBy("enumSurf") # {}

\* The handles vkCreateInstance has handed out.
InstanceHandles ==
    {calls[k].handle : k \in {n \in Attempts(calls, "vkCreateInstance") : calls[n].ok}}

\* C28: the instance's destroyer is the last native call of every teardown:
\* no call follows it, so the logical device, the debug hook and the probe
\* surface are destroyed before it; every destroyer that reads the instance
\* through its back-reference finds the created instance; and a constructor
\* that failed or a pipeline that was destroyed has destroyed a created
\* instance exactly once.
C28_InstanceDestroyedLast ==
    /\ \A k \in DestroysBy("instance") : \A j \in DOMAIN calls : j <= k
    /\ \A j \in DestroysBy("debugMessenger") \cup DestroysBy("enumSurf") :
          calls[j].inst \in InstanceHandles
    /\ pc \in {"failed", "destroyed"} =>
          Cardinality(DestroysBy("instance")) = Cardinality(InstanceHandles)

\* A pipeline with diagnostics that completed and was destroyed: the device,
\* the debug hook and the instance were destroyed.
C28_Witness ==
    /\ pc = "destroyed"
    /\ DestroysBy("device") # {}
    /\ DestroysBy("debugMessenger") # {}
    /\ DestroysBy("enumSurf") # {}
    /\ DestroysBy("instance") # {}

HookCreate == "vkCreateDebugUtilsMessengerEXT"
HookDestroy == "vkDestroyDebugUtilsMessengerEXT"

\* C29: vkCreateDebugUtilsMessengerEXT is called only with diagnostics
\* enabled and on an instance that was created, and with diagnostics enabled
\* no later stage is attempted without the hook having been created; the
\* hook's native destroy call is made only on a hook that was created; with
\* diagnostics disabled neither call occurs; and vkCreateInstance is asked
\* for the debug extension exactly when diagnostics are enabled.
C29_DebugHookOnlyWithDiagnostics ==
    /\ \A k \in Attempts(calls, HookCreate) :
          /\ enableValidationLayers
          /\ calls[k].inst \in InstanceHandles
          /\ \E j \in Attempts(calls, "vkCreateInstance") : j < k /\ calls[j].ok
    /\ (enableValidationLayers /\ Attempts(calls, "glfwCreateWindow") # {}) =>
          \E k \in Attempts(calls, HookCreate) : calls[k].ok
    /\ \A k \in DOMAIN calls :
          (calls[k].kind = "destroy" /\ calls[k].fn = HookDestroy) =>
              \E j \in Attempts(calls, HookCreate) :
                  j < k /\ calls[j].ok /\ calls[j].handle = calls[k].handle
    /\ ~enableValidationLayers =>
          \A k \in DOMAIN calls : calls[k].fn \notin {HookCreate, HookDestroy}
    /\ \A k \in Attempts(calls, "vkCreateInstance") :
          (DebugUtilsExt \in Range(calls[k].arg.exts)) <=> enableValidationLayers

\* With diagnostics enabled the hook was created and has been destroyed.
C29_Witness ==
    /\ enableValidationLayers
    /\ \E k \in DOMAIN calls : calls[k].kind = "destroy" /\ calls[k].fn = HookDestroy
    /\ \E k \in Attempts(calls, "vkCreateInstance") :
          DebugUtilsExt \in Range(calls[k].arg.exts)

\* C30: every vkCreateDevice call carries one queue request, for the family
\* the selection returned by selectPhysDevice() names as its graphics family;
\* a graphics queue is held only from a device whose creation succeeded, and
\* from that family; and after a failed creation no queue is held, the device
\* wrapper is invalid and its destroyer is never called.
C30_OneQueueFromSelectedFamily ==
    /\ \A k \in Attempts(calls, "vkCreateDevice") :
          /\ selectedPhysDev.graphicsQueueFamilyIdx # None
          /\ calls[k].arg.queueCount = 1
          /\ calls[k].arg.queueFamilyIndex = selectedPhysDev.graphicsQueueFamilyIdx[1]
          /\ ~calls[k].ok =>
                /\ graphicsQueue = NoQueue
                /\ Alive(objs["device"]) => ~objs["device"].resourceValid
                /\ DestroysBy("device") = {}
    /\ graphicsQueue # NoQueue =>
          \E k \in Attempts(calls, "vkCreateDevice") :
              /\ calls[k].ok
              /\ graphicsQueue = [device |-> calls[k].handle,
                                  family |-> calls[k].arg.queueFamilyIndex]

\* The device was created and its queue retrieved.
C30_Witness ==
    /\ pc = "initVkReturn"
    /\ graphicsQueue # NoQueue
    /\ Alive(objs["device"]) /\ objs["device"].resourceValid
    /\ \E k \in Attempts(calls, "vkCreateDevice") : calls[k].ok

\* What one call of get() does to the static instance pointer of a kind,
\* whose cache is before and after, when the runtime would report available.
SingletonGetStep(before, after, available) ==
    /\ before # Null =>
          /\ after = before
          /\ calls' = calls
          /\ error' = "none"
    /\ before = Null =>
          \/ /\ error' # "none"
             /\ after = Null
          \/ /\ error' = "none"
             /\ after = available
             /\ Len(NewCalls) = 2
             /\ \A k \in DOMAIN NewCalls : NewCalls[k].ok

\* C31: for each capability kind, a get() that finds the instance returns it
\* as it is, without constructing or querying; a get() that finds none either
\* fails and stores none, or stores an instance whose cache holds what a
\* successful updateCache() fetched; and an instance, once stored, is never
\* dropped or replaced by a fresh one.
C31_SingletonPerKind ==
    [][/\ pc' = "ext.get" => SingletonGetStep(extEnumerator, extEnumerator', sys'.exts)
       /\ pc' = "layer.get" =>
             SingletonGetStep(layerEnumerator, layerEnumerator', sys'.layers)
       /\ extEnumerator # Null => extEnumerator' # Null
       /\ layerEnumerator # Null => layerEnumerator' # Null]_vars

\* A first get() built the extension enumerator with two successful queries,
\* and a later get() returned it while the runtime reports another list.
C31_Witness ==
    /\ pc = "ext.get"
    /\ error = "none"
    /\ extEnumerator # Null
    /\ extEnumerator # sys.exts
    /\ Len(calls) = 2
    /\ \A k \in DOMAIN calls : calls[k].ok

\* C32: the sum of tier and maxImageDimension2D that the rubric forms is never
\* negative, for any device in the catalog, and the score of a device that has
\* its required queue families is not negative, so that selectPhysDevice()
\* does not take it for a disqualified one.
C32_QualifiedScoreNonNegative ==
    SelectDone =>
        /\ \A d \in DOMAIN deviceDataCache : rubricScore(deviceDataCache[d]) >= 0
        /\ \A d \in QualifiedDevices : SelectionOf(d).score >= 0

\* C33: a call of updateCache() that throws, at the count query, at a zero
\* count of extensions or at the fetch, leaves both caches as they were, so
\* hasExt(name) and hasLayer(name) answer after it as they did before it.
C33_FailedRefreshKeepsCache ==
    [][(error' # "none" /\ NewCalls # <<>>) =>
          /\ extEnumerator' = extEnumerator
          /\ layerEnumerator' = layerEnumerator
          /\ \A name \in CapabilityNames :
                /\ hasExt(extEnumerator', name) <=> hasExt(extEnumerator, name)
                /\ hasLayer(layerEnumerator', name) <=> hasLayer(layerEnumerator, name)]_vars

(***************************************************************************)
(* Properties of WindowVk, checked under SpecWindow                        *)
(***************************************************************************)
\* The step ends the life of WindowVk x while it holds a surface and a window.
TeardownOf(x) ==
    /\ windowVk[x].life = "alive"
    /\ windowVk'[x].life # "alive"
    /\ objs[SurfaceOf(x)].resourceValid
    /\ objs[WindowOf(x)].resourceValid
\* The step is a construction that created the window and then threw.
SurfaceCreationFailed ==
    /\ pc = "window.client"
    /\ pc' = "window.failed"
    /\ NewCalls # <<>>
    /\ NewCalls[1].fn = "glfwCreateWindow"
    /\ NewCalls[1].ok

\* C34: the teardown of a WindowVk that holds a surface and a window makes
\* two native calls, vkDestroySurfaceKHR on its surface and then
\* glfwDestroyWindow on its window; and a construction whose surface creation
\* fails destroys the window it created exactly once and makes no
\* vkDestroySurfaceKHR call.
C34_SurfaceBeforeWindow ==
    [][/\ \A x \in WindowVks :
             TeardownOf(x) =>
                 /\ Len(NewCalls) = 2
                 /\ NewCalls[1].fn = "vkDestroySurfaceKHR"
                 /\ NewCalls[1].handle = objs[SurfaceOf(x)].managedResource
                 /\ NewCalls[2].fn = "glfwDestroyWindow"
                 /\ NewCalls[2].handle = objs[WindowOf(x)].managedResource
       /\ SurfaceCreationFailed =>
             /\ Cardinality({k \in DOMAIN NewCalls :
                                /\ NewCalls[k].kind = "destroy"
                                /\ NewCalls[k].fn = "glfwDestroyWindow"
                                /\ NewCalls[k].handle = NewCalls[1].handle}) = 1
             /\ \A k \in DOMAIN NewCalls : NewCalls[k].fn # "vkDestroySurfaceKHR"]_vars

(***************************************************************************)
(* Properties of VerilatorBench, checked under SpecBench                   *)
(***************************************************************************)
\* C35: getCycles() is 0 once the bench is constructed and after every
\* reset(), and every advanceCycle() the client calls raises it by one, so
\* that it counts the advanceCycle() calls since the last reset or the
\* construction.
C35_CyclesCountAdvances ==
    [][/\ (bench = NoBench /\ bench' # NoBench) => getCycles(bench') = 0
       /\ (bench # NoBench /\ pc' = "bench.reset") => getCycles(bench') = 0
       /\ (bench # NoBench /\ pc' = "bench.advanceCycle") =>
             getCycles(bench') = getCycles(bench) + 1]_vars

\* Two advanceCycle() calls were made since the construction or the last
\* reset().
C35_Witness ==
    /\ pc = "bench.advanceCycle"
    /\ getCycles(bench) = 2
    /\ bench.rst = 0

\* The events of the last call are an evaluation with clk = 0, one with
\* clk = 1, the rising edge handler, an evaluation with clk = 0 and the
\* falling edge handler, in this order and nothing else.
CycleShape(t) ==
    /\ Len(t) = 5
    /\ t[1].ev = "eval" /\ t[1].clk = 0
    /\ t[2].ev = "eval" /\ t[2].clk = 1
    /\ t[3].ev = "rising"
    /\ t[4].ev = "eval" /\ t[4].clk = 0
    /\ t[5].ev = "falling"
\* reset() ran one cycle with rst = 1 throughout and left rst = 0.
ResetShape ==
    pc = "bench.reset" =>
        /\ CycleShape(bench.trace)
        /\ \A k \in DOMAIN bench.trace : bench.trace[k].rst = 1
        /\ bench.rst = 0

\* C36: a call of advanceCycle() evaluates with clk = 0, evaluates with
\* clk = 1, runs the rising edge handler, evaluates with clk = 0 and runs the
\* falling edge handler, each once and in this order, and clk is 0 when it
\* returns; reset() runs one such cycle with rst = 1 and leaves rst = 0.
C36_ClkLowOnReturn ==
    /\ pc = "bench.advanceCycle" => CycleShape(bench.trace) /\ bench.clk = 0
    /\ ResetShape

\* C36, amended: as above, but clk is 0 when the falling edge handler is
\* called, and 0 when advanceCycle() returns unless that handler wrote clk.
C36_ClkLowAtFallingHandler ==
    /\ pc = "bench.advanceCycle" =>
          /\ CycleShape(bench.trace)
          /\ bench.trace[5].clk = 0
          /\ bench.trace[5].handler.field # "clk" => bench.clk = 0
    /\ ResetShape

\* advanceCycle() has returned with the clk its falling edge handler wrote.
C36_Witness ==
    /\ pc = "bench.advanceCycle"
    /\ bench.trace[5].handler.field = "clk"
    /\ bench.clk = 1

=============================================================================
